---- MODULE Spec2Model ----
(***************************************************************************)
(* Model of the LinkedIn image generator: the batch of compositing tasks   *)
(* started by ImageProcessor.generateImages and the aspect-preserving      *)
(* blitter drawImageProp of imageUtils.ts.                                 *)
(***************************************************************************)
EXTENDS Integers, Sequences, FiniteSets, TLC

VARIABLES
    profilePhoto,   \* Index state: the selected profile photo, or NoFile
    logo,           \* Index state: the selected logo, or NoFile
    isGenerating,   \* Index state: isGenerating
    progress,       \* ImageProcessor state: progress
    timers,         \* number of progressInterval timers that are still set
    pc,             \* position of generateImages
    batchNo,        \* number of batches started so far
    task,           \* per task of the current batch: position and result
    outOfOrder,     \* a task of the current batch fulfilled after a later-issued one
    canvas,         \* the canvases created by the current batch
    ctxFailures,    \* number of getContext('2d') calls that returned null
    toasts,         \* notifications of the current batch
    delivered,      \* last argument of onImagesGenerated
    deliveredCalls, \* calls of onImagesGenerated for the current batch
    captured,       \* the files the running generateImages closed over
    ticks,          \* progressInterval callbacks run so far
    objectUrls,     \* object URLs the batch has created and not revoked
    blit,           \* one call of drawImageProp: its arguments and its draw
    matte,          \* removeBackgroundAdvanced on one logo: pixels, edges, color
    filter,         \* one pixel going through a colour filter
    headshot,       \* two calls of createHeadshotVariant on the same inputs
    session         \* Index and ImageProcessor with every generateImages call

\* the variables of the specifications of single functions
pureVars == <<blit, matte, filter, headshot, session>>

vars == <<profilePhoto, logo, isGenerating, progress, timers, pc, batchNo,
          task, outOfOrder, canvas, ctxFailures, toasts, delivered,
          deliveredCalls, captured, ticks, objectUrls, pureVars>>

batchVars == <<profilePhoto, logo, isGenerating, progress, timers, pc,
               batchNo, task, outOfOrder, canvas, ctxFailures, toasts,
               delivered, deliveredCalls, captured, ticks, objectUrls>>

(***************************************************************************)
(* Numbers.  JavaScript numbers are modelled as fractions n/d without      *)
(* rounding, extended with the IEEE-754 special values that a division by  *)
(* zero produces: 1/0 is +Infinity, -1/0 is -Infinity and 0/0 is NaN.       *)
(***************************************************************************)
RECURSIVE Gcd(_, _)
Gcd(a, b) == IF b = 0 THEN a ELSE Gcd(b, a % b)

AbsInt(a) == IF a < 0 THEN -a ELSE a

SignInt(a) == IF a < 0 THEN -1 ELSE IF a > 0 THEN 1 ELSE 0

Norm(n, d) ==
    IF d = 0 THEN [n |-> SignInt(n), d |-> 0]
    ELSE LET g == Gcd(AbsInt(n), AbsInt(d))
             s == IF d < 0 THEN -1 ELSE 1
         IN  [n |-> s * (n \div g), d |-> s * (d \div g)]

Num(i) == [n |-> i, d |-> 1]

Frac(n, d) == Norm(n, d)

NaN == [n |-> 0, d |-> 0]

IsNaN(a) == a.n = 0 /\ a.d = 0

IsFinite(a) == a.d # 0

\* a * b; common factors are cancelled before multiplying
Mul(a, b) ==
    IF a.d = 0 \/ b.d = 0 \/ a.n = 0 \/ b.n = 0
    THEN Norm(a.n * b.n, a.d * b.d)
    ELSE LET g1 == Gcd(AbsInt(a.n), b.d)
             g2 == Gcd(AbsInt(b.n), a.d)
         IN  Norm((a.n \div g1) * (b.n \div g2), (a.d \div g2) * (b.d \div g1))

\* a / b = a * (1 / b); 1 / 0 is +Infinity
Div(a, b) ==
    IF IsNaN(a) \/ IsNaN(b) THEN NaN
    ELSE IF b.n < 0 THEN Mul(a, [n |-> -b.d, d |-> -b.n])
    ELSE Mul(a, [n |-> b.d, d |-> b.n])

Sub(a, b) ==
    IF IsNaN(a) \/ IsNaN(b) THEN NaN
    ELSE IF a.d = 0 /\ b.d = 0 THEN (IF a.n = b.n THEN NaN ELSE a)
    ELSE IF a.d = 0 THEN a
    ELSE IF b.d = 0 THEN [n |-> -b.n, d |-> 0]
    ELSE LET g == Gcd(a.d, b.d)
         IN  Norm(a.n * (b.d \div g) - b.n * (a.d \div g), (a.d \div g) * b.d)

\* a < b; every comparison with NaN is false
Lt(a, b) ==
    IF IsNaN(a) \/ IsNaN(b) THEN FALSE
    ELSE IF a.d = 0 /\ b.d = 0 THEN a.n < b.n
    ELSE IF a.d = 0 THEN a.n < 0
    ELSE IF b.d = 0 THEN b.n > 0
    ELSE LET g == Gcd(a.d, b.d)
         IN  a.n * (b.d \div g) < b.n * (a.d \div g)

Le(a, b) == Lt(a, b) \/ (~IsNaN(a) /\ a = b)

\* Math.min: NaN if either argument is NaN
MathMin(a, b) ==
    IF IsNaN(a) \/ IsNaN(b) THEN NaN ELSE IF Lt(b, a) THEN b ELSE a

MathAbs(a) == [n |-> AbsInt(a.n), d |-> a.d]

\* q < 1e-14 for q >= 0.  A nonzero fraction whose denominator fits the
\* model's integers is at least 2^-31, which is far above 1e-14.
BelowEpsilon(q) == IsFinite(q) /\ q.n = 0

(***************************************************************************)
(* drawImageProp (imageUtils.ts).                                          *)
(***************************************************************************)
\* offsets are kept in [0.0, 1.0]
ClampOffset(o) ==
    IF Lt(o, Num(0)) THEN Num(0) ELSE IF Lt(Num(1), o) THEN Num(1) ELSE o

\* if (nw < w) ar = w / nw
FirstGap(nw, w) == IF Lt(nw, w) THEN Div(w, nw) ELSE Num(1)

\* if (Math.abs(ar - 1) < 1e-14 && nh < h) ar = h / nh
SecondGap(ar, nh, h) ==
    IF BelowEpsilon(MathAbs(Sub(ar, Num(1)))) /\ Lt(nh, h)
    THEN Div(h, nh) ELSE ar

\* the ratio before the second gap test was added to the function
FillRatioFirstGapOnly(nw, nh, w, h) == FirstGap(nw, w)

\* "Decide which gap to fill": the factor ar applied to nw and nh
FillRatio(nw, nh, w, h) == SecondGap(FirstGap(nw, w), nh, h)

\* "Make sure source rectangle is valid"
ValidRect(iw, ih, cx, cy, cw, ch) ==
    [cx |-> IF Lt(cx, Num(0)) THEN Num(0) ELSE cx,
     cy |-> IF Lt(cy, Num(0)) THEN Num(0) ELSE cy,
     cw |-> IF Lt(iw, cw) THEN iw ELSE cw,
     ch |-> IF Lt(ih, ch) THEN ih ELSE ch]

\* the crop taken from the top left corner, whatever the offsets
PlaceRectTopLeft(iw, ih, ox, oy, cw, ch) ==
    ValidRect(iw, ih, Num(0), Num(0), cw, ch)

\* cx = (iw - cw) * offsetX; cy = (ih - ch) * offsetY
PlaceRect(iw, ih, ox, oy, cw, ch) ==
    ValidRect(iw, ih, Mul(Sub(iw, cw), ox), Mul(Sub(ih, ch), oy), cw, ch)

\* nw *= ar; nh *= ar; cw = iw / (nw / w); ch = ih / (nh / h)
CalcRect(iw, ih, w, h, ox, oy, nw, nh, ar) ==
    PlaceRect(iw, ih, ox, oy,
              Div(iw, Div(Mul(nw, ar), w)), Div(ih, Div(Mul(nh, ar), h)))

\* the proportional size nw, nh, and the gap to fill
FillRect(iw, ih, w, h, ox, oy, nw, nh) ==
    CalcRect(iw, ih, w, h, ox, oy, nw, nh, FillRatio(nw, nh, w, h))

\* nw = iw * r; nh = ih * r
ScaleRect(iw, ih, w, h, ox, oy, r) ==
    FillRect(iw, ih, w, h, ox, oy, Mul(iw, r), Mul(ih, r))

\* r = Math.min(w / iw, h / ih)
FitRect(iw, ih, w, h, ox, oy) ==
    ScaleRect(iw, ih, w, h, ox, oy, MathMin(Div(w, iw), Div(h, ih)))

\* the source rectangle handed to ctx.drawImage
SourceRect(imgW, imgH, dw, dh, offsetX, offsetY) ==
    FitRect(Num(imgW), Num(imgH), Num(dw), Num(dh),
            ClampOffset(offsetX), ClampOffset(offsetY))

\* ctx.drawImage(img, cx, cy, cw, ch, x, y, w, h): the call returns without
\* drawing when an argument is not finite or the source rectangle is empty
DrawsPixels(rect) ==
    /\ IsFinite(rect.cx) /\ IsFinite(rect.cy)
    /\ IsFinite(rect.cw) /\ IsFinite(rect.ch)
    /\ rect.cw.n # 0 /\ rect.ch.n # 0

\* the whole call: drawImageProp has no throw statement and always reaches
\* ctx.drawImage
DrawCall(rect) ==
    [rect |-> rect, called |-> TRUE, error |-> "none", drew |-> DrawsPixels(rect)]

drawImageProp(imgW, imgH, dw, dh, offsetX, offsetY) ==
    DrawCall(SourceRect(imgW, imgH, dw, dh, offsetX, offsetY))

\* the crop of the earlier createHeadshotVariant: size = Math.min(width,
\* height), offsetX = (width - size) / 2, offsetY = (height - size) / 2,
\* given to ctx.drawImage as source rectangle
CenterSquareCrop(imgW, imgH) ==
    LET size == MathMin(Num(imgW), Num(imgH))
    IN  [cx |-> Div(Sub(Num(imgW), size), Num(2)),
         cy |-> Div(Sub(Num(imgH), size), Num(2)),
         cw |-> size,
         ch |-> size]

(***************************************************************************)
(* Bounds of the model.                                                    *)
(***************************************************************************)
MaxBatches == 1        \* batches started in one session

MaxCtxFailures == 1    \* getContext('2d') calls of a session that return null

MaxTicks == 1          \* progress timer callbacks followed in one session

\* images of one batch, made from the matte canvas, that fail to load
MaxReloadFailures == 1

(***************************************************************************)
(* Files and records.                                                      *)
(***************************************************************************)
NoFile ==
    [name |-> "null", type |-> "", decodes |-> FALSE, width |-> 0,
     height |-> 0]

\* a file of an image type whose content does not decode
CorruptFile ==
    [name |-> "corrupt", type |-> "image/png", decodes |-> FALSE,
     width |-> 0, height |-> 0]

\* a file that is no image
TextFile ==
    [name |-> "notes", type |-> "text/plain", decodes |-> FALSE,
     width |-> 0, height |-> 0]

\* file.type.match('image.*'): the pattern is found anywhere in the type;
\* of the types of the model it is found in "image/png" alone
MatchesImage(type) == type = "image/png"

\* the files a user can drop or pick as profile photo: an image that
\* decodes, of an extreme aspect ratio, and a text file
PhotoFiles ==
    { [name |-> "wide", type |-> "image/png", decodes |-> TRUE,
       width |-> 4000, height |-> 100],
      TextFile }

\* the files a user can drop or pick as logo: an image that decodes and a
\* corrupt image
LogoFiles ==
    { [name |-> "logo", type |-> "image/png", decodes |-> TRUE,
       width |-> 120, height |-> 40],
      CorruptFile }

\* width and height of the images a task can decode
ImageSizes == {<<f.width, f.height>> : f \in PhotoFiles \cup LogoFiles}

\* Math.random() * 10 of the progress timer, as whole percent
RandomIncrements == {9}

profileVariants == <<"professional", "artistic", "minimal", "bold">>

NumVariants == Len(profileVariants)

NumTasks == NumVariants + 2

Tasks == 1 .. NumTasks

VariantTasks == 1 .. NumVariants

Banner1 == NumVariants + 1

Banner2 == NumVariants + 2

NoUrl == [w |-> 0, h |-> 0, layers |-> <<>>]

\* the null a profile promise resolves to when its variant failed
Null == [id |-> <<"null", 0>>, url |-> NoUrl, type |-> "null", name |-> "null"]

\* variant.charAt(0).toUpperCase() + variant.slice(1)
Capitalize(v) ==
    CASE v = "professional" -> "Professional"
      [] v = "artistic"     -> "Artistic"
      [] v = "minimal"      -> "Minimal"
      [] v = "bold"         -> "Bold"
      [] v = "gradient"     -> "Gradient"
      [] v = "duotone"      -> "Duotone"
      [] v = "vintage"      -> "Vintage"
      [] OTHER              -> v

\* id: `profile-${index}`
ProfileIdFromZero(index) == <<"profile", index>>

\* id: `profile-${index + 1}` for the 0-based index of the variant
ProfileId(index) == <<"profile", index + 1>>

ProfileRecord(t, url) ==
    [id   |-> ProfileId(t - 1),
     url  |-> url,
     type |-> "profile",
     name |-> Capitalize(profileVariants[t])]

BannerRecord(t, url) ==
    IF t = Banner1
    THEN [id |-> <<"banner", 1>>, url |-> url, type |-> "banner",
          name |-> "Professional LinkedIn Banner"]
    ELSE [id |-> <<"banner", 2>>, url |-> url, type |-> "banner",
          name |-> "Modern LinkedIn Banner"]

(***************************************************************************)
(* Canvases.  document.createElement('canvas') returns a new canvas for    *)
(* every call: one output canvas per task, and one canvas per call of      *)
(* removeBackgroundAdvanced.                                               *)
(***************************************************************************)
CanvasIds == 1 .. 2 * NumTasks

\* one canvas kept at module level and handed to every caller
SharedCanvas(t, kind) == 1

NewCanvas(t, kind) == IF kind = "output" THEN t ELSE NumTasks + t

\* a canvas as created: 300 by 150, nothing drawn
BlankCanvas ==
    [w |-> 300, h |-> 150, layers |-> <<>>, alpha |-> 10,
     blend |-> "source-over", writers |-> {}]

NoRect == [cx |-> Num(0), cy |-> Num(0), cw |-> Num(0), ch |-> Num(0)]

\* canvas.width = w; canvas.height = h: clears the bitmap, resets the context
SetSize(c, t, w, h) ==
    [c EXCEPT !.w = w, !.h = h, !.layers = <<>>, !.alpha = 10,
              !.blend = "source-over", !.writers = @ \cup {t}]

Paint(c, t, op, src, rect, dst, clip) ==
    [c EXCEPT !.layers = Append(@, [op |-> op, src |-> src, rect |-> rect,
                                    dst |-> dst, alpha |-> c.alpha,
                                    blend |-> c.blend, clip |-> clip]),
              !.writers = @ \cup {t}]

\* a fill, stroke, text or putImageData over the rectangle dst
Fill(c, t, op, style, dst, clip) == Paint(c, t, op, style, NoRect, dst, clip)

\* the effect of one ctx.drawImage call d on canvas c
PaintCall(c, t, src, d, dst, clip) ==
    IF d.drew THEN Paint(c, t, "drawImage", src, d.rect, dst, clip) ELSE c

\* the widths and heights of the destinations the recipes draw into
BlitSides == {50, 60, 80, 100, 120, 200, 300, 340, 360, 500}

\* drawImageProp with the default offsets (0.5, 0.5), tabulated once for the
\* image sizes and the destination sizes of the model: the function is pure
CenteredCrop ==
    [s \in ImageSizes, w \in BlitSides, h \in BlitSides |->
        drawImageProp(s[1], s[2], w, h, Frac(1, 2), Frac(1, 2))]

\* drawImageProp(ctx, img, x, y, w, h) with the default offsets
Blit(c, t, src, img, x, y, w, h, clip) ==
    PaintCall(c, t, src, CenteredCrop[<<img.width, img.height>>, w, h],
              <<x, y, w, h>>, clip)

\* ctx.drawImage(img, x, y, w, h): the whole source, stretched
Stretch(c, t, src, img, x, y, w, h, clip) ==
    Paint(c, t, "drawImage", src,
          [cx |-> Num(0), cy |-> Num(0),
           cw |-> Num(img.width), ch |-> Num(img.height)],
          <<x, y, w, h>>, clip)

SetAlpha(c, a) == [c EXCEPT !.alpha = a]

SetBlend(c, b) == [c EXCEPT !.blend = b]

Snapshot(c) == [w |-> c.w, h |-> c.h, layers |-> c.layers]

(***************************************************************************)
(* The recipes.  Each is the synchronous code that runs after the last     *)
(* await of its task; p is the decoded profile photo, l the logo after     *)
(* removeBackgroundAdvanced (or the decoded logo, for banner layout B).    *)
(***************************************************************************)
Full == <<0, 0, 500, 500>>

\* addVignette(ctx, width, height)
addVignette(c, t, width, height) ==
    Fill(c, t, "fillRect", "vignette", <<0, 0, width, height>>, "none")

\* enhanceColors(ctx, width, height)
enhanceColors(c, t, width, height) ==
    Fill(c, t, "putImageData", "enhanceColors", <<0, 0, width, height>>, "none")

RecipeProfessional(c, t, p, l) ==
    LET c1 == Blit(c, t, "profile", p, 0, 0, 500, 500, "circle 250,250,250")
        c2 == Blit(SetAlpha(c1, 7), t, "logo", l, 320, 320, 80, 80, "none")
    IN  addVignette(SetAlpha(c2, 10), t, c.w, c.h)

RecipeArtistic(c, t, p, l) ==
    LET c1 == Blit(c, t, "profile", p, 0, 0, 500, 500, "circle 250,250,250")
        c2 == Fill(c1, t, "fillRect", "rgba(65, 105, 225, 0.2)", Full, "none")
        c3 == Blit(SetAlpha(SetBlend(c2, "overlay"), 4), t, "logo", l,
                   150, 150, 200, 200, "none")
    IN  SetAlpha(SetBlend(c3, "source-over"), 10)

RecipeMinimal(c, t, p, l) ==
    LET c1 == Blit(c, t, "profile", p, 0, 0, 500, 500, "circle 250,250,240")
        c2 == Fill(c1, t, "stroke", "#fff", Full, "none")
    IN  Blit(c2, t, "logo", l, 400, 400, 60, 60, "none")

RecipeBold(c, t, p, l) ==
    LET c1 == Blit(c, t, "profile", p, 0, 0, 500, 500, "upper triangle")
        c2 == Fill(c1, t, "fillRect", "#1d4ed8", Full, "lower triangle")
        c3 == Blit(SetBlend(c2, "screen"), t, "logo", l, 150, 250, 200, 200,
                   "lower triangle")
    IN  SetBlend(c3, "source-over")

RecipeGradient(c, t, p, l) ==
    LET c1 == Fill(c, t, "fillRect", "gradient #3b82f6 #8b5cf6", Full, "none")
        c2 == Blit(c1, t, "profile", p, 70, 50, 360, 360, "circle 250,230,180")
        c3 == Fill(c2, t, "fillText", "YOUR NAME", Full, "none")
    IN  Blit(c3, t, "logo", l, 220, 350, 60, 60, "none")

RecipeDuotone(c, t, p, l) ==
    LET c1 == Blit(c, t, "profile", p, 0, 0, 500, 500, "circle 250,250,250")
        c2 == Fill(c1, t, "putImageData", "duotone", <<0, 0, c.w, c.h>>, "none")
        c3 == Blit(SetAlpha(SetBlend(c2, "lighten"), 7), t, "logo", l,
                   350, 350, 120, 120, "none")
    IN  SetAlpha(SetBlend(c3, "source-over"), 10)

\* Math.random() returns k / RandomSteps for a k in 0 .. RandomSteps - 1
RandomSteps == 4

\* Math.floor(Math.random() * 20)
NoiseValue(k) == (k * 20) \div RandomSteps

\* the pixels of the noise texture that the model keeps
NoisePixels == 2

\* the textures the noise loop of the vintage recipe can produce
NoiseTextures ==
    [1 .. NoisePixels -> {NoiseValue(k) : k \in 0 .. RandomSteps - 1}]

NoNoise == <<>>

\* the random numbers a recipe can draw: vintage alone calls Math.random
RandomDraws(variant) ==
    IF variant = "vintage" THEN NoiseTextures ELSE {NoNoise}

RecipeVintage(c, t, p, l, noise) ==
    LET c1 == Fill(c, t, "fillRect", "#e2d3b4", Full, "none")
        c2 == Fill(c1, t, "putImageData", noise, Full, "none")
        c3 == Fill(c2, t, "strokeRect", "#8B4513", <<40, 40, 420, 420>>, "none")
        c4 == Fill(c3, t, "strokeRect", "#D2B48C", <<60, 60, 380, 380>>, "none")
        c5 == Blit(c4, t, "profile", p, 80, 80, 340, 340, "circle 250,250,170")
        c6 == Fill(c5, t, "putImageData", "sepia", Full, "none")
    IN  Blit(c6, t, "logo", l, 40, 430, 50, 50, "none")

\* the switch with the noise loop in the professional case as well
VariantSwitchNoisyProfessional(variant, c, t, p, l, noise) ==
    CASE variant = "professional" ->
             Fill(RecipeProfessional(c, t, p, l), t, "putImageData", noise,
                  Full, "none")
      [] variant = "artistic"     -> RecipeArtistic(c, t, p, l)
      [] variant = "minimal"      -> RecipeMinimal(c, t, p, l)
      [] variant = "bold"         -> RecipeBold(c, t, p, l)
      [] variant = "gradient"     -> RecipeGradient(c, t, p, l)
      [] variant = "duotone"      -> RecipeDuotone(c, t, p, l)
      [] variant = "vintage"      -> RecipeVintage(c, t, p, l, noise)
      [] OTHER                    -> c

\* the switch of createHeadshotVariant; it has no default case.  noise is
\* the texture drawn from Math.random, which the vintage case alone uses
VariantSwitch(variant, c, t, p, l, noise) ==
    CASE variant = "professional" -> RecipeProfessional(c, t, p, l)
      [] variant = "artistic"     -> RecipeArtistic(c, t, p, l)
      [] variant = "minimal"      -> RecipeMinimal(c, t, p, l)
      [] variant = "bold"         -> RecipeBold(c, t, p, l)
      [] variant = "gradient"     -> RecipeGradient(c, t, p, l)
      [] variant = "duotone"      -> RecipeDuotone(c, t, p, l)
      [] variant = "vintage"      -> RecipeVintage(c, t, p, l, noise)
      [] OTHER                    -> c

\* the tags that have a case in the switch
RecipeTags ==
    {"professional", "artistic", "minimal", "bold",
     "gradient", "duotone", "vintage"}

\* a headshot canvas of the banner's size
HeadshotDrawWide(c, t, variant, p, l, noise) ==
    VariantSwitch(variant, SetSize(c, t, 1584, 396), t, p, l, noise)

\* createHeadshotVariant after its awaits: size the canvas, run the recipe
HeadshotDraw(c, t, variant, p, l, noise) ==
    VariantSwitch(variant, SetSize(c, t, 500, 500), t, p, l, noise)

\* combineImages after its awaits, for type 'profile' and type 'banner'
CombineDraw(c, t, type, p, l) ==
    IF type = "profile"
    THEN LET c0 == SetSize(c, t, 500, 500)
             c1 == Blit(c0, t, "profile", p, 0, 0, 500, 500,
                        "circle 250,250,250")
             c2 == Blit(SetAlpha(c1, 8), t, "logo", l, 300, 300, 100, 100,
                        "none")
             c3 == addVignette(SetAlpha(c2, 10), t, c0.w, c0.h)
         IN  enhanceColors(c3, t, c0.w, c0.h)
    ELSE LET c0 == SetSize(c, t, 1584, 396)
             c1 == Fill(c0, t, "fillRect", "gradient #f0f4f8 #d1e2f2",
                        <<0, 0, c0.w, c0.h>>, "none")
             c2 == Blit(c1, t, "profile", p, 100, (c0.h - 300) \div 2,
                        300, 300, "circle")
             c3 == Blit(c2, t, "logo", l, c0.w - 200 - 100,
                        (c0.h - 200) \div 2, 200, 200, "none")
             c4 == Fill(c3, t, "stroke", "rgba(0,0,0,0.1)",
                        <<c0.w \div 2, 50, 1, c0.h - 100>>, "none")
         IN  Fill(c4, t, "fillText", "Professional Trustworthy Expert",
                  <<0, 0, c0.w, c0.h>>, "none")

\* banner layout B before its first await: size the canvas, fill the gradient
Banner2Start(c, t) ==
    LET c0 == SetSize(c, t, 1584, 396)
    IN  Fill(c0, t, "fillRect", "gradient #2563eb #4f46e5",
             <<0, 0, c0.w, c0.h>>, "none")

\* banner layout B after both images have loaded
Banner2Draw(c, t, p, l) ==
    LET c1 == Stretch(c, t, "profile", p, 250 - 125, c.h \div 2 - 125,
                      250, 250, "circle")
        c2 == Stretch(c1, t, "rawLogo", l, c.w - 160 - 100, c.h \div 2 - 80,
                      160, 160, "none")
    IN  Fill(c2, t, "fillText", "Professional | Creative | Innovative",
             <<0, 0, c.w, c.h>>, "none")

\* removeBackgroundAdvanced up to its return: a canvas of the logo's size
\* gets the logo and then the pixels with the new alpha values
MatteDraw(c, t, img) ==
    LET c0 == SetSize(c, t, img.width, img.height)
        c1 == Stretch(c0, t, "rawLogo", img, 0, 0, img.width, img.height, "none")
    IN  Fill(c1, t, "putImageData", "matte", <<0, 0, c0.w, c0.h>>, "none")

\* the image loaded from the matte canvas's data URL
ProcessedLogo(c) ==
    [name |-> "processedLogo", type |-> "image/png", decodes |-> TRUE,
     width |-> c.w, height |-> c.h]

(***************************************************************************)
(* The batch: ImageProcessor.generateImages and its callers.               *)
(***************************************************************************)
NoTask == [pc |-> "none", result |-> Null]

NoToasts == [variant |-> {}, batch |-> 0, success |-> 0, missing |-> 0]

Settled(tk, t) == tk[t].pc \in {"none", "fulfilled", "null", "rejected"}

\* Promise.allSettled-like: waits for every promise and never rejects
PromiseAllSettled(tk) ==
    IF \A t \in Tasks : tk[t].pc \in {"fulfilled", "null", "rejected"}
    THEN "fulfilled" ELSE "pending"

\* Promise.all([...profilePromises, ...bannerPromises]): rejected as soon as
\* one promise is rejected, fulfilled when all are fulfilled
PromiseAll(tk) ==
    IF \E t \in Tasks : tk[t].pc = "rejected" THEN "rejected"
    ELSE IF \A t \in Tasks : tk[t].pc \in {"fulfilled", "null"} THEN "fulfilled"
    ELSE "pending"

\* Promise.all([...bannerPromises, ...profilePromises])
GeneratedImagesBannersFirst(tk) ==
    SelectSeq([i \in Tasks |->
                  tk[IF i <= 2 THEN NumVariants + i ELSE i - 2].result],
              LAMBDA r : r # Null)

\* results.filter(Boolean), in the order of the array given to Promise.all
GeneratedImages(tk) ==
    SelectSeq([t \in Tasks |-> tk[t].result], LAMBDA r : r # Null)

\* generateImages with the delivery in a finally block: the timeout is set
\* after a rejected Promise.all as well
AfterAwaitAlwaysDelivering(tk, awaiting, prog, tm, ts) ==
    IF ~awaiting
    THEN [pc |-> pc, isGenerating |-> isGenerating, progress |-> prog,
          timers |-> tm, toasts |-> ts]
    ELSE CASE PromiseAll(tk) = "rejected" ->
                [pc |-> "delay", isGenerating |-> TRUE, progress |-> prog,
                 timers |-> tm, toasts |-> [ts EXCEPT !.batch = @ + 1]]
           [] PromiseAll(tk) = "fulfilled" ->
                [pc |-> "delay", isGenerating |-> TRUE, progress |-> 100,
                 timers |-> tm - 1, toasts |-> ts]
           [] OTHER ->
                [pc |-> "awaitAll", isGenerating |-> TRUE, progress |-> prog,
                 timers |-> tm, toasts |-> ts]

\* what generateImages does once the tasks are in state tk: nothing while
\* Promise.all is pending; the code after the await when it is fulfilled;
\* the catch block when it is rejected.  prog and tm are progress and timers
\* at that moment.
AfterAwait(tk, awaiting, prog, tm, ts) ==
    IF ~awaiting
    THEN [pc |-> pc, isGenerating |-> isGenerating, progress |-> prog,
          timers |-> tm, toasts |-> ts]
    ELSE CASE PromiseAll(tk) = "rejected" ->
                [pc |-> "idle", isGenerating |-> FALSE, progress |-> prog,
                 timers |-> tm, toasts |-> [ts EXCEPT !.batch = @ + 1]]
           [] PromiseAll(tk) = "fulfilled" ->
                [pc |-> "delay", isGenerating |-> TRUE, progress |-> 100,
                 timers |-> tm - 1, toasts |-> ts]
           [] OTHER ->
                [pc |-> "awaitAll", isGenerating |-> TRUE, progress |-> prog,
                 timers |-> tm, toasts |-> ts]

\* a banner promise that swallows its error and resolves to null
TaskFailsBannerNull(tk, t) == [tk EXCEPT ![t] = [pc |-> "null", result |-> Null]]

\* a task throws or its promise is rejected: a variant's error is caught and
\* its promise resolves to null, a banner's promise is rejected
TaskFails(tk, t) ==
    IF t \in VariantTasks
    THEN [tk EXCEPT ![t] = [pc |-> "null", result |-> Null]]
    ELSE [tk EXCEPT ![t] = [pc |-> "rejected", result |-> Null]]

\* toast.error(`Failed to generate ${variant} profile`) in the variant's catch
FailToast(ts, t) ==
    IF t \in VariantTasks
    THEN [ts EXCEPT !.variant = @ \cup {profileVariants[t]}]
    ELSE ts

\* the outcomes of one getContext('2d') call
ContextOutcomes == IF ctxFailures < MaxCtxFailures THEN BOOLEAN ELSE {TRUE}

Init ==
    /\ profilePhoto = NoFile
    /\ logo = NoFile
    /\ isGenerating = FALSE
    /\ progress = 0
    /\ timers = 0
    /\ pc = "idle"
    /\ batchNo = 0
    /\ task = [t \in Tasks |-> NoTask]
    /\ outOfOrder = FALSE
    /\ canvas = [c \in CanvasIds |-> BlankCanvas]
    /\ ctxFailures = 0
    /\ toasts = NoToasts
    /\ delivered = <<>>
    /\ deliveredCalls = 0
    /\ captured = [profilePhoto |-> NoFile, logo |-> NoFile]
    /\ ticks = 0
    /\ objectUrls = 0
    /\ blit = [phase |-> "unused"]
    /\ matte = [phase |-> "unused"]
    /\ filter = [phase |-> "unused"]
    /\ headshot = [phase |-> "unused"]
    /\ session = [phase |-> "unused"]

\* Index.handleProfilePhotoUpload
HandleProfilePhotoUpload(file) ==
    /\ pc = "idle" /\ ~isGenerating
    /\ \A t \in Tasks : Settled(task, t)
    /\ batchNo < MaxBatches
    /\ profilePhoto' = file
    /\ UNCHANGED <<logo, isGenerating, progress, timers, pc, batchNo, task,
                   outOfOrder, canvas, ctxFailures, toasts, delivered,
                   deliveredCalls, captured, ticks, objectUrls, pureVars>>

\* Index.handleLogoUpload
HandleLogoUpload(file) ==
    /\ pc = "idle" /\ ~isGenerating
    /\ \A t \in Tasks : Settled(task, t)
    /\ batchNo < MaxBatches
    /\ logo' = file
    /\ UNCHANGED <<profilePhoto, isGenerating, progress, timers, pc, batchNo,
                   task, outOfOrder, canvas, ctxFailures, toasts, delivered,
                   deliveredCalls, captured, ticks, objectUrls, pureVars>>

\* the model takes an upload only between batches
UploadEnabled ==
    /\ pc = "idle" /\ ~isGenerating
    /\ \A t \in Tasks : Settled(task, t)
    /\ batchNo < MaxBatches

\* UploadSection.handleProfilePhotoDrop: a file that is no image gets a
\* toast and goes no further
HandleProfilePhotoDrop(file) ==
    /\ UploadEnabled
    /\ IF MatchesImage(file.type)
       THEN HandleProfilePhotoUpload(file)
       ELSE UNCHANGED vars

\* UploadSection.handleLogoDrop
HandleLogoDrop(file) ==
    /\ UploadEnabled
    /\ IF MatchesImage(file.type)
       THEN HandleLogoUpload(file)
       ELSE UNCHANGED vars

\* UploadSection.handleProfilePhotoChange: the file picked in the file
\* dialog is passed on as it is
HandleProfilePhotoChange(file) ==
    /\ UploadEnabled
    /\ HandleProfilePhotoUpload(file)

\* UploadSection.handleLogoChange
HandleLogoChange(file) ==
    /\ UploadEnabled
    /\ HandleLogoUpload(file)

\* UploadSection.canGenerate
canGenerate == profilePhoto # NoFile /\ logo # NoFile /\ ~isGenerating

\* the Generate button: Index.handleGenerate, enabled by canGenerate.  The
\* model starts a batch only after the tasks of the previous one have settled.
HandleGenerate ==
    /\ pc = "idle"
    /\ canGenerate
    /\ batchNo < MaxBatches
    /\ \A t \in Tasks : Settled(task, t)
    /\ isGenerating' = TRUE
    /\ pc' = "effect"
    /\ UNCHANGED <<profilePhoto, logo, progress, timers, batchNo, task,
                   outOfOrder, canvas, ctxFailures, toasts, delivered,
                   deliveredCalls, captured, ticks, objectUrls, pureVars>>

\* the tasks right after the synchronous start of the batch; F is the set of
\* tasks whose own canvas got no 2d context
TasksAtStart(F) ==
    LET started == [t \in Tasks |->
                      [pc |-> IF t = Banner2 THEN "loadProfile" ELSE "load",
                       result |-> Null]]
    IN  [t \in Tasks |-> IF t \in F THEN TaskFails(started, t)[t]
                         ELSE started[t]]

\* the object URLs the tasks of a batch create before their first await:
\* createHeadshotVariant and combineImages call createImageFromFile for
\* both files, banner layout B creates the URL of the profile photo; a task
\* without a 2d context throws before that
UrlsAtStart(F) ==
    2 * Cardinality((VariantTasks \cup {Banner1}) \ F)
      + (IF Banner2 \in F THEN 0 ELSE 1)

\* useEffect of ImageProcessor runs generateImages up to its await: the
\* guard, the timer, and the start of every task up to its first await
GenerateImages ==
    /\ pc = "effect"
    /\ isGenerating /\ profilePhoto # NoFile /\ logo # NoFile
    /\ IF profilePhoto = NoFile \/ logo = NoFile
       THEN /\ toasts' = [toasts EXCEPT !.missing = @ + 1]
            /\ pc' = "idle"
            /\ UNCHANGED <<isGenerating, progress, timers, batchNo, task,
                           outOfOrder, canvas, ctxFailures, deliveredCalls,
                           captured, ticks, objectUrls>>
       ELSE \E F \in SUBSET Tasks :
            /\ Cardinality(F) <= MaxCtxFailures - ctxFailures
            /\ LET tk == TasksAtStart(F)
                   ts == [NoToasts EXCEPT !.variant =
                            {profileVariants[t] : t \in F \cap VariantTasks}]
                   a  == AfterAwait(tk, TRUE, 60, timers + 1, ts)
                   fresh == [c \in CanvasIds |-> BlankCanvas]
               IN  /\ task' = tk
                   /\ toasts' = a.toasts
                   /\ pc' = a.pc
                   /\ isGenerating' = a.isGenerating
                   /\ progress' = a.progress
                   /\ timers' = a.timers
                   /\ canvas' = IF Banner2 \in F THEN fresh
                                ELSE [fresh EXCEPT
                                        ![NewCanvas(Banner2, "output")] =
                                            Banner2Start(@, Banner2)]
                   /\ ctxFailures' = ctxFailures + Cardinality(F)
                   /\ batchNo' = batchNo + 1
                   /\ outOfOrder' = FALSE
                   /\ deliveredCalls' = 0
                   /\ captured' = [profilePhoto |-> profilePhoto, logo |-> logo]
                   /\ ticks' = ticks
                   /\ objectUrls' = UrlsAtStart(F)
    /\ UNCHANGED <<profilePhoto, logo, delivered, pureVars>>

\* the batch-level part of a step that moves the tasks to tk
BatchReacts(tk, ts) ==
    LET a == AfterAwait(tk, pc = "awaitAll", progress, timers, ts)
    IN  /\ task' = tk
        /\ toasts' = a.toasts
        /\ pc' = a.pc
        /\ isGenerating' = a.isGenerating
        /\ progress' = a.progress
        /\ timers' = a.timers

\* createHeadshotVariant / combineImages: both createImageFromFile promises
\* have settled; on success removeBackgroundAdvanced runs up to its return
ImagesLoaded(t) ==
    /\ t \in VariantTasks \cup {Banner1}
    /\ task[t].pc = "load"
    /\ IF captured.profilePhoto.decodes /\ captured.logo.decodes
       THEN \E ok \in ContextOutcomes :
            IF ok
            THEN /\ BatchReacts([task EXCEPT ![t].pc = "matte"], toasts)
                 /\ canvas' = [canvas EXCEPT ![NewCanvas(t, "matte")] =
                                  MatteDraw(@, t, captured.logo)]
                 /\ UNCHANGED ctxFailures
            ELSE /\ BatchReacts(TaskFails(task, t), FailToast(toasts, t))
                 /\ ctxFailures' = ctxFailures + 1
                 /\ UNCHANGED canvas
       ELSE /\ BatchReacts(TaskFails(task, t), FailToast(toasts, t))
            /\ UNCHANGED <<canvas, ctxFailures>>
    /\ UNCHANGED <<profilePhoto, logo, batchNo, outOfOrder, delivered,
                   deliveredCalls, captured, ticks, objectUrls, pureVars>>

\* the image made from the matte canvas has loaded: the task sizes its
\* canvas, draws and returns canvas.toDataURL
MatteReloaded(t) ==
    /\ t \in VariantTasks \cup {Banner1}
    /\ task[t].pc = "matte"
    /\ \E noise \in IF t \in VariantTasks
                     THEN RandomDraws(profileVariants[t]) ELSE {NoNoise} :
        LET out == NewCanvas(t, "output")
            l   == ProcessedLogo(canvas[NewCanvas(t, "matte")])
            c   == IF t \in VariantTasks
                   THEN HeadshotDraw(canvas[out], t, profileVariants[t],
                                     captured.profilePhoto, l, noise)
                   ELSE CombineDraw(canvas[out], t, "banner",
                                    captured.profilePhoto, l)
            rec == IF t \in VariantTasks
                   THEN ProfileRecord(t, Snapshot(c))
                   ELSE BannerRecord(t, Snapshot(c))
        IN  /\ canvas' = [canvas EXCEPT ![out] = c]
            /\ BatchReacts([task EXCEPT ![t] =
                               [pc |-> "fulfilled", result |-> rec]], toasts)
    /\ outOfOrder' = (outOfOrder \/ \E u \in Tasks : u > t /\ task[u].pc = "fulfilled")
    /\ UNCHANGED <<profilePhoto, logo, batchNo, ctxFailures, delivered,
                   deliveredCalls, captured, ticks, objectUrls, pureVars>>

\* the image made from the matte canvas fails to load: the promise of
\* removeBackgroundAdvanced sets onload only, no handler runs and the promise
\* stays pending, and with it the await of the task
MatteReloadFails(t) ==
    /\ t \in VariantTasks \cup {Banner1}
    /\ task[t].pc = "matte"
    /\ Cardinality({u \in Tasks : task[u].pc = "reloadFailed"})
           < MaxReloadFailures
    /\ task' = [task EXCEPT ![t].pc = "reloadFailed"]
    /\ UNCHANGED <<profilePhoto, logo, isGenerating, progress, timers, pc,
                   batchNo, outOfOrder, canvas, ctxFailures, toasts, delivered,
                   deliveredCalls, captured, ticks, objectUrls, pureVars>>

\* banner layout B: the profile image has loaded or failed to load
Banner2ProfileLoaded ==
    /\ task[Banner2].pc = "loadProfile"
    /\ IF captured.profilePhoto.decodes
       THEN /\ BatchReacts([task EXCEPT ![Banner2].pc = "loadLogo"], toasts)
            /\ objectUrls' = objectUrls + 1
       ELSE /\ BatchReacts(TaskFails(task, Banner2),
                           FailToast(toasts, Banner2))
            /\ UNCHANGED objectUrls
    /\ UNCHANGED <<profilePhoto, logo, batchNo, outOfOrder, canvas, ctxFailures,
                   delivered, deliveredCalls, captured, ticks, pureVars>>

\* banner layout B: the logo image has loaded or failed to load; on success
\* the banner is drawn and returned
Banner2LogoLoaded ==
    /\ task[Banner2].pc = "loadLogo"
    /\ IF captured.logo.decodes
       THEN LET out == NewCanvas(Banner2, "output")
                c   == Banner2Draw(canvas[out], Banner2,
                                   captured.profilePhoto, captured.logo)
            IN  /\ canvas' = [canvas EXCEPT ![out] = c]
                /\ BatchReacts([task EXCEPT ![Banner2] =
                                  [pc |-> "fulfilled",
                                   result |-> BannerRecord(Banner2, Snapshot(c))]],
                               toasts)
                /\ UNCHANGED outOfOrder
       ELSE /\ BatchReacts(TaskFails(task, Banner2), FailToast(toasts, Banner2))
            /\ UNCHANGED <<canvas, outOfOrder>>
    /\ UNCHANGED <<profilePhoto, logo, batchNo, ctxFailures, delivered,
                   deliveredCalls, captured, ticks, objectUrls, pureVars>>

\* the setTimeout(500) callback after a successful batch
TimeoutFires ==
    /\ pc = "delay"
    /\ delivered' = GeneratedImages(task)
    /\ deliveredCalls' = deliveredCalls + 1
    /\ isGenerating' = FALSE
    /\ toasts' = [toasts EXCEPT !.success = @ + 1]
    /\ pc' = "idle"
    /\ UNCHANGED <<profilePhoto, logo, progress, timers, batchNo, task,
                   outOfOrder, canvas, ctxFailures, captured, ticks,
                   objectUrls, pureVars>>

\* a progressInterval callback: setProgress(prev => min(95, prev + random))
ProgressTick ==
    /\ timers > 0
    /\ ticks < MaxTicks
    /\ \E inc \in RandomIncrements :
         progress' = IF progress + inc > 95 THEN 95 ELSE progress + inc
    /\ progress' # progress
    /\ ticks' = ticks + 1
    /\ UNCHANGED <<profilePhoto, logo, isGenerating, timers, pc, batchNo, task,
                   outOfOrder, canvas, ctxFailures, toasts, delivered,
                   deliveredCalls, captured, objectUrls, pureVars>>

\* the sessions in which every image made from a matte canvas loads
Next ==
    \/ \E file \in PhotoFiles : HandleProfilePhotoDrop(file)
    \/ \E file \in LogoFiles : HandleLogoDrop(file)
    \/ \E file \in PhotoFiles : HandleProfilePhotoChange(file)
    \/ \E file \in LogoFiles : HandleLogoChange(file)
    \/ HandleGenerate
    \/ GenerateImages
    \/ \E t \in Tasks : ImagesLoaded(t)
    \/ \E t \in Tasks : MatteReloaded(t)
    \/ Banner2ProfileLoaded
    \/ Banner2LogoLoaded
    \/ TimeoutFires
    \/ ProgressTick

Spec == Init /\ [][Next]_vars

\* what the browser is bound to do once it is possible: run the effect,
\* fire the load or the error event of an image that is loading, run the
\* timeout callback.  Uploads, the Generate button and the progress timer
\* of the model are under no such obligation.  For the image made from the
\* matte canvas the event is MatteReloaded(t) or MatteReloadFails(t), which
\* are possible exactly while the task is at "matte" and are the only steps
\* that leave it: their weak fairness is that no task stays there for ever.
\* In the same way Banner2LogoLoaded is possible exactly at "loadLogo".
Fairness ==
    /\ WF_vars(GenerateImages)
    /\ \A t \in Tasks : WF_vars(ImagesLoaded(t))
    /\ \A t \in Tasks : []<>(task[t].pc # "matte")
    /\ WF_vars(Banner2ProfileLoaded)
    /\ []<>(task[Banner2].pc # "loadLogo")
    /\ WF_vars(TimeoutFires)

\* the sessions in which such an image may also fail to load
NextWithReloadFailure ==
    \/ Next
    \/ \E t \in Tasks : MatteReloadFails(t)

FairSpec == Init /\ [][NextWithReloadFailure]_vars /\ Fairness

(***************************************************************************)
(* drawImageProp on its own: every argument is drawn from a bounded set.   *)
(***************************************************************************)
OffsetSteps == 4   \* offsets are the multiples of 1/OffsetSteps

SourceSizes == {0, 1, 3, 100, 4000}

DestSizes == {1, 50, 396, 500}

\* from just below 0 to just above 1: drawImageProp clamps them
Offsets == {Frac(q, OffsetSteps) : q \in -1 .. OffsetSteps + 1}

InitBlit ==
    /\ profilePhoto = NoFile
    /\ logo = NoFile
    /\ isGenerating = FALSE
    /\ progress = 0
    /\ timers = 0
    /\ pc = "idle"
    /\ batchNo = 0
    /\ task = [t \in Tasks |-> NoTask]
    /\ outOfOrder = FALSE
    /\ canvas = [c \in CanvasIds |-> BlankCanvas]
    /\ ctxFailures = 0
    /\ toasts = NoToasts
    /\ delivered = <<>>
    /\ deliveredCalls = 0
    /\ captured = [profilePhoto |-> NoFile, logo |-> NoFile]
    /\ ticks = 0
    /\ objectUrls = 0
    /\ matte = [phase |-> "unused"]
    /\ filter = [phase |-> "unused"]
    /\ headshot = [phase |-> "unused"]
    /\ session = [phase |-> "unused"]
    /\ \E iw \in SourceSizes, ih \in SourceSizes, w \in DestSizes,
          h \in DestSizes, ox \in Offsets, oy \in Offsets :
         blit = [phase |-> "called", iw |-> iw, ih |-> ih, w |-> w, h |-> h,
                 offsetX |-> ox, offsetY |-> oy,
                 out |-> drawImageProp(1, 1, 1, 1, Num(0), Num(0))]

\* one call drawImageProp(ctx, img, x, y, w, h, offsetX, offsetY)
DrawImagePropCall ==
    /\ blit.phase = "called"
    /\ blit' = [blit EXCEPT
                  !.phase = "returned",
                  !.out = drawImageProp(blit.iw, blit.ih, blit.w, blit.h,
                                        blit.offsetX, blit.offsetY)]
    /\ UNCHANGED <<batchVars, matte, filter, headshot, session>>

NextBlit == DrawImagePropCall

SpecBlit == InitBlit /\ [][NextBlit]_vars

(***************************************************************************)
(* removeBackgroundAdvanced on pixel data (imageUtils.ts).  An image is a  *)
(* record [width, height, px]; px is the RGBA data in row order, one       *)
(* record per pixel: pixel (x, y) is px[y * width + x + 1].                *)
(***************************************************************************)
Rgba(r, g, b, a) == [r |-> r, g |-> g, b |-> b, a |-> a]

\* data[(y * width + x) * 4 .. + 3]
PixelAt(data, width, x, y) == data[y * width + x + 1]

\* three times the grayscale value (data[i] + data[i+1] + data[i+2]) / 3
Gray3(p) == p.r + p.g + p.b

\* three times gx = -tl - 2*l - bl + tr + 2*r + br
SobelX3(data, width, x, y) ==
    - Gray3(PixelAt(data, width, x - 1, y - 1))
    - 2 * Gray3(PixelAt(data, width, x - 1, y))
    - Gray3(PixelAt(data, width, x - 1, y + 1))
    + Gray3(PixelAt(data, width, x + 1, y - 1))
    + 2 * Gray3(PixelAt(data, width, x + 1, y))
    + Gray3(PixelAt(data, width, x + 1, y + 1))

\* three times gy = -tl - 2*t - tr + bl + 2*b + br
SobelY3(data, width, x, y) ==
    - Gray3(PixelAt(data, width, x - 1, y - 1))
    - 2 * Gray3(PixelAt(data, width, x, y - 1))
    - Gray3(PixelAt(data, width, x + 1, y - 1))
    + Gray3(PixelAt(data, width, x - 1, y + 1))
    + 2 * Gray3(PixelAt(data, width, x, y + 1))
    + Gray3(PixelAt(data, width, x + 1, y + 1))

\* g >= sobelThreshold
AboveSobelThresholdInclusive(gx3, gy3) ==
    gx3 * gx3 + gy3 * gy3 >= 90 * 90

\* Math.sqrt(gx*gx + gy*gy) > sobelThreshold, with sobelThreshold = 30.  The
\* grayscale values of the logos of this model are integers, for which the
\* doubles of the code are exact
AboveSobelThreshold(gx3, gy3) == gx3 * gx3 + gy3 * gy3 > 90 * 90

\* the flag of pixel (x, y): the loops run over 1 .. height - 2 and
\* 1 .. width - 2, every other flag keeps the false it was filled with
EdgeFlag(data, width, height, x, y) ==
    /\ 1 <= x /\ x < width - 1
    /\ 1 <= y /\ y < height - 1
    /\ AboveSobelThreshold(SobelX3(data, width, x, y),
                           SobelY3(data, width, x, y))

detectEdges(data, width, height) ==
    [i \in 1 .. Len(data) |->
        EdgeFlag(data, width, height, (i - 1) % width, (i - 1) \div width)]

\* Math.sqrt(pixelCount), for the pixel counts of this model (all squares)
SqrtExact(n) == CHOOSE s \in 0 .. n : s * s = n

\* "Only sample from edges (10% inward)": edgeThreshold = width * 0.1; the
\* row test uses width too
SampledPixel(i, width) ==
    LET x == (i - 1) % width
        y == (i - 1) \div width
    IN  \/ 10 * x < width
        \/ 10 * x > 9 * width
        \/ 10 * y < width
        \/ 10 * y > 9 * width

\* colorKey: `${floor(r/10)},${floor(g/10)},${floor(b/10)}`
ColorKey(p) == <<p.r \div 10, p.g \div 10, p.b \div 10>>

\* the indices of the sampled pixels
SampledPixels(data) ==
    {i \in 1 .. Len(data) : SampledPixel(i, SqrtExact(Len(data)))}

\* colorCounts[key].count
ColorCount(data, key) ==
    Cardinality({i \in SampledPixels(data) : ColorKey(data[i]) = key})

\* the pixel that created colorCounts[key]: the first sampled one of the key
FirstOfKey(data, key) ==
    CHOOSE i \in SampledPixels(data) :
        /\ ColorKey(data[i]) = key
        /\ \A j \in SampledPixels(data) : ColorKey(data[j]) = key => i <= j

\* the loop with count >= maxCount: the last key among those of the
\* greatest count
DominantPixelLastTie(data) ==
    CHOOSE i \in SampledPixels(data) :
        /\ i = FirstOfKey(data, ColorKey(data[i]))
        /\ \A j \in SampledPixels(data) :
              \/ ColorCount(data, ColorKey(data[j]))
                     < ColorCount(data, ColorKey(data[i]))
              \/ /\ ColorCount(data, ColorKey(data[j]))
                        = ColorCount(data, ColorKey(data[i]))
                 /\ i >= FirstOfKey(data, ColorKey(data[j]))

\* the loop over colorCounts in insertion order with count > maxCount: the
\* first key, in order of creation, among those of the greatest count
DominantPixel(data) ==
    CHOOSE i \in SampledPixels(data) :
        /\ i = FirstOfKey(data, ColorKey(data[i]))
        /\ \A j \in SampledPixels(data) :
              \/ ColorCount(data, ColorKey(data[j]))
                     < ColorCount(data, ColorKey(data[i]))
              \/ /\ ColorCount(data, ColorKey(data[j]))
                        = ColorCount(data, ColorKey(data[i]))
                 /\ i <= FirstOfKey(data, ColorKey(data[j]))

\* the returned color; white when nothing was sampled
findDominantBackgroundColor(data) ==
    IF SampledPixels(data) = {}
    THEN [r |-> 255, g |-> 255, b |-> 255]
    ELSE [r |-> data[DominantPixel(data)].r,
          g |-> data[DominantPixel(data)].g,
          b |-> data[DominantPixel(data)].b]

\* the square of colorDistance
Distance2(bg, p) ==
    (bg.r - p.r) * (bg.r - p.r) + (bg.g - p.g) * (bg.g - p.g)
        + (bg.b - p.b) * (bg.b - p.b)

\* Math.round((colorDistance / threshold) * 255) with threshold = 30, for
\* colorDistance below 45: the integer n with n - 1/2 <= 17 * d / 2 < n + 1/2
RoundScaled(d2) ==
    CHOOSE n \in 0 .. 17 * 45 :
        /\ n = 0 \/ (2 * n - 1) * (2 * n - 1) <= 289 * d2
        /\ 289 * d2 < (2 * n + 1) * (2 * n + 1)

\* the first test without the edge flag
CloseToBackgroundIgnoringEdges(p, bg, edge) == Distance2(bg, p) < 30 * 30

\* colorDistance < threshold && !edges[i/4]
CloseToBackground(p, bg, edge) == Distance2(bg, p) < 30 * 30 /\ ~edge

\* colorDistance < threshold * 1.5 && !edges[i/4]
SlightlySimilar(p, bg, edge) == 4 * Distance2(bg, p) < 90 * 90 /\ ~edge

\* Math.min(255, Math.round((colorDistance / threshold) * 255))
PartialAlpha(d2) == IF RoundScaled(d2) > 255 THEN 255 ELSE RoundScaled(d2)

\* the loop body that has only the first of the two branches
MatteAlphaFirstBranchOnly(p, bg, edge) ==
    IF CloseToBackground(p, bg, edge) THEN 0 ELSE p.a

\* the loop body of removeBackgroundAdvanced: the new data[i + 3]
MatteAlpha(p, bg, edge) ==
    IF CloseToBackground(p, bg, edge) THEN 0
    ELSE IF SlightlySimilar(p, bg, edge) THEN PartialAlpha(Distance2(bg, p))
    ELSE p.a

\* "Process each pixel": data after the loop
ProcessPixels(data, edges, backgroundColor) ==
    [i \in 1 .. Len(data) |->
        [data[i] EXCEPT !.a = MatteAlpha(data[i], backgroundColor, edges[i])]]

\* edges and backgroundColor are computed once, before the loop
MattePixels(data, width, height) ==
    ProcessPixels(data, detectEdges(data, width, height),
                  findDominantBackgroundColor(data))

\* ctx.drawImage(img, 0, 0) then ctx.getImageData: what a canvas gives back
\* for an image.  The bitmap may be kept with premultiplied alpha, and then
\* a pixel of alpha 0 comes back as transparent black; both readings occur.
CanvasReadings(px) ==
    {px, [i \in 1 .. Len(px) |->
             IF px[i].a = 0 THEN Rgba(0, 0, 0, 0) ELSE px[i]]}

\* an in-place version: the pixels of the image given are overwritten
ImageAfterCallInPlace(img, out) == [img EXCEPT !.px = out]

\* the image given to removeBackgroundAdvanced after the call: the function
\* only reads img.width and img.height and draws img on its own canvas
ImageAfterCall(img, out) == img

\* the image returned: loaded from canvas.toDataURL of the canvas that was
\* sized canvas.width = img.width, canvas.height = img.height
removeBackgroundAdvanced(img, data) ==
    [width |-> img.width, height |-> img.height,
     px |-> MattePixels(data, img.width, img.height)]

White == Rgba(255, 255, 255, 255)

Black == Rgba(0, 0, 0, 255)

\* colors at chosen distances from white: 0, sqrt 75, sqrt 899, 30,
\* sqrt 1200, sqrt 1587, 45 and sqrt 195075
LogoColors ==
    { <<255, 255, 255>>, <<250, 250, 250>>, <<226, 248, 252>>,
      <<225, 255, 255>>, <<235, 235, 235>>, <<232, 232, 232>>,
      <<210, 255, 255>>, <<0, 0, 0>> }

LogoAlphas == {255, 128}

LogoPixels == {Rgba(c[1], c[2], c[3], a) : c \in LogoColors, a \in LogoAlphas}

\* a 3 by 3 logo: the corner, the top and the centre pixel and the color of
\* the right column vary, every other pixel is white
TestLogo(corner, top, centre, right) ==
    [width |-> 3, height |-> 3,
     px |-> <<corner, top, right,
              White, centre, right,
              White, White, right>>]

\* a 4 by 1 logo, which findDominantBackgroundColor takes for 2 by 2
WideLogo(first, second, last) ==
    [width |-> 4, height |-> 1, px |-> <<first, second, White, last>>]

\* the logos given to removeBackgroundAdvanced
TestLogos ==
    {TestLogo(corner, top, centre, right) :
        corner \in {White, Rgba(250, 250, 250, 255)}, top \in LogoPixels,
        centre \in LogoPixels, right \in {White, Black}}
    \cup {WideLogo(first, second, last) :
             first \in LogoPixels,
             second \in {White, Rgba(210, 255, 255, 255)},
             last \in LogoPixels}

NoImage == [width |-> 0, height |-> 0, px |-> <<>>]

InitMatte ==
    /\ profilePhoto = NoFile
    /\ logo = NoFile
    /\ isGenerating = FALSE
    /\ progress = 0
    /\ timers = 0
    /\ pc = "idle"
    /\ batchNo = 0
    /\ task = [t \in Tasks |-> NoTask]
    /\ outOfOrder = FALSE
    /\ canvas = [c \in CanvasIds |-> BlankCanvas]
    /\ ctxFailures = 0
    /\ toasts = NoToasts
    /\ delivered = <<>>
    /\ deliveredCalls = 0
    /\ captured = [profilePhoto |-> NoFile, logo |-> NoFile]
    /\ ticks = 0
    /\ objectUrls = 0
    /\ blit = [phase |-> "unused"]
    /\ filter = [phase |-> "unused"]
    /\ headshot = [phase |-> "unused"]
    /\ session = [phase |-> "unused"]
    /\ \E img \in TestLogos :
         matte = [phase |-> "given",
                  img   |-> img,
                  data1 |-> <<>>, edges1 |-> <<>>,
                  backgroundColor1 |-> [r |-> 255, g |-> 255, b |-> 255],
                  out1 |-> NoImage, data2 |-> <<>>, out2 |-> NoImage]

\* removeBackgroundAdvanced(img) on the logo
RemoveBackgroundCall ==
    /\ matte.phase = "given"
    /\ \E data \in CanvasReadings(matte.img.px) :
         LET out == removeBackgroundAdvanced(matte.img, data)
         IN  matte' = [matte EXCEPT
                          !.phase = "once",
                          !.data1 = data,
                          !.edges1 = detectEdges(data, matte.img.width,
                                                 matte.img.height),
                          !.backgroundColor1 =
                              findDominantBackgroundColor(data),
                          !.out1 = out,
                          !.img = ImageAfterCall(matte.img, out.px)]
    /\ UNCHANGED <<batchVars, blit, filter, headshot, session>>

\* removeBackgroundAdvanced on the image the first call returned
RemoveBackgroundAgain ==
    /\ matte.phase = "once"
    /\ \E data \in CanvasReadings(matte.out1.px) :
         matte' = [matte EXCEPT
                      !.phase = "twice",
                      !.data2 = data,
                      !.out2 = removeBackgroundAdvanced(matte.out1, data)]
    /\ UNCHANGED <<batchVars, blit, filter, headshot, session>>

NextMatte == RemoveBackgroundCall \/ RemoveBackgroundAgain

SpecMatte == InitMatte /\ [][NextMatte]_vars

(***************************************************************************)
(* The colour filters on one pixel (imageUtils.ts enhanceColors and the    *)
(* vintage sepia; the monochrome threshold of the earlier                  *)
(* createHeadshotVariant).  The pixel data is a Uint8ClampedArray: a store  *)
(* clamps the number to 0 .. 255 and rounds it to the nearest integer.  A  *)
(* number is given as the exact fraction n / d of the decimal constants;   *)
(* the code computes it in doubles, which agree with the fraction except   *)
(* that a value at an exact half may lie on either side of it (contrast of *)
(* 13 stores 1, of 3 stores 3; sepia shows both directions), so at a half  *)
(* both neighbours are outcomes of the store.                              *)
(***************************************************************************)
FilterChannels == {0, 1, 13, 33, 128, 139, 140, 141, 254, 255}

Rgb(r, g, b) == [r |-> r, g |-> g, b |-> b]

\* the integers nearest to n / d, d > 0
Nearest(n, d) ==
    LET q == n \div d
        r == n % d
    IN  IF 2 * r < d THEN {q} ELSE IF 2 * r > d THEN {q + 1} ELSE {q, q + 1}

\* data[i] = n / d on a Uint8ClampedArray
Uint8ClampedStore(n, d) ==
    IF n <= 0 THEN {0}
    ELSE IF n >= 255 * d THEN {255}
    ELSE Nearest(n, d)

\* Math.min(255, Math.max(0, n / d)) as a fraction over d
MinMax(n, d) ==
    IF n < 0 THEN 0 ELSE IF n > 255 * d THEN 255 * d ELSE n

\* the number n / d rounded and kept as it is, without any clamp
EnhanceStoreUnclamped(n, d) == Nearest(n, d)

\* data[i] = Math.min(255, Math.max(0, n / d)) in enhanceColors
EnhanceStore(n, d) == Uint8ClampedStore(MinMax(n, d), d)

\* (v - 128) * 1.1 + 128, over 10
Contrast10(v) == (v - 128) * 11 + 1280

\* v + (v - avg) * 0.1 with avg = sum / 3, over 30
Saturation30(v, sum) == 33 * v - sum

\* the pixels enhanceColors can store after its contrast statements
ContrastPixels(p) ==
    {Rgb(r, g, b) : r \in EnhanceStore(Contrast10(p.r), 10),
                    g \in EnhanceStore(Contrast10(p.g), 10),
                    b \in EnhanceStore(Contrast10(p.b), 10)}

\* the pixels it can store after its saturation statements; avg is read
\* from the stored contrast values before any of them is overwritten
SaturationPixels(c) ==
    LET sum == c.r + c.g + c.b
    IN  {Rgb(r, g, b) : r \in EnhanceStore(Saturation30(c.r, sum), 30),
                        g \in EnhanceStore(Saturation30(c.g, sum), 30),
                        b \in EnhanceStore(Saturation30(c.b, sum), 30)}

\* vintagePixels[i] = Math.min(255, n / 1000)
SepiaStore(n) == Uint8ClampedStore(IF n > 255000 THEN 255000 ELSE n, 1000)

\* the sepia formula of the vintage recipe
SepiaPixels(p) ==
    {Rgb(r, g, b) :
        r \in SepiaStore(393 * p.r + 769 * p.g + 189 * p.b),
        g \in SepiaStore(349 * p.r + 686 * p.g + 168 * p.b),
        b \in SepiaStore(272 * p.r + 534 * p.g + 131 * p.b)}

\* brightness = R * 0.299 + G * 0.587 + B * 0.114, over 1000
Brightness1000(p) == 299 * p.r + 587 * p.g + 114 * p.b

\* brightness >= 140
AboveThresholdInclusive(p) == Brightness1000(p) >= 140000

\* brightness > 140 (the doubles agree with the fractions on every pixel)
AboveThreshold(p) == Brightness1000(p) > 140000

\* monoPixels[i] = monoPixels[i + 1] = monoPixels[i + 2] = threshold
MonochromePixel(p) ==
    LET threshold == IF AboveThreshold(p) THEN 255 ELSE 0
    IN  Rgb(threshold, threshold, threshold)

NoPixel == Rgb(0, 0, 0)

InitFilter ==
    /\ profilePhoto = NoFile
    /\ logo = NoFile
    /\ isGenerating = FALSE
    /\ progress = 0
    /\ timers = 0
    /\ pc = "idle"
    /\ batchNo = 0
    /\ task = [t \in Tasks |-> NoTask]
    /\ outOfOrder = FALSE
    /\ canvas = [c \in CanvasIds |-> BlankCanvas]
    /\ ctxFailures = 0
    /\ toasts = NoToasts
    /\ delivered = <<>>
    /\ deliveredCalls = 0
    /\ captured = [profilePhoto |-> NoFile, logo |-> NoFile]
    /\ ticks = 0
    /\ objectUrls = 0
    /\ blit = [phase |-> "unused"]
    /\ matte = [phase |-> "unused"]
    /\ headshot = [phase |-> "unused"]
    /\ session = [phase |-> "unused"]
    /\ \E r \in FilterChannels, g \in FilterChannels, b \in FilterChannels :
         filter = [phase |-> "given", px |-> Rgb(r, g, b),
                   contrast |-> NoPixel, out |-> NoPixel]

\* enhanceColors on the pixel: the contrast stores, then the saturation
\* stores
EnhanceColorsCall ==
    /\ filter.phase = "given"
    /\ \E c \in ContrastPixels(filter.px) :
         \E s \in SaturationPixels(c) :
            filter' = [filter EXCEPT !.phase = "enhanced",
                                     !.contrast = c, !.out = s]
    /\ UNCHANGED <<batchVars, blit, matte, headshot, session>>

\* the sepia loop of the vintage recipe on the pixel
SepiaCall ==
    /\ filter.phase = "given"
    /\ \E s \in SepiaPixels(filter.px) :
         filter' = [filter EXCEPT !.phase = "sepia", !.out = s]
    /\ UNCHANGED <<batchVars, blit, matte, headshot, session>>

\* the threshold loop of the monochrome recipe on the pixel
MonochromeCall ==
    /\ filter.phase = "given"
    /\ filter' = [filter EXCEPT !.phase = "monochrome",
                                !.out = MonochromePixel(filter.px)]
    /\ UNCHANGED <<batchVars, blit, matte, headshot, session>>

NextFilter == EnhanceColorsCall \/ SepiaCall \/ MonochromeCall

SpecFilter == InitFilter /\ [][NextFilter]_vars

(***************************************************************************)
(* createHeadshotVariant called twice with the same files and the same     *)
(* variant.  Each call decodes the files, extracts the logo and runs the   *)
(* recipe on a canvas of its own; noise stands for the numbers that        *)
(* Math.random returns during the call.                                    *)
(***************************************************************************)
HeadshotFiles == PhotoFiles \cup LogoFiles

\* what one call createHeadshotVariant(profilePhoto, logo, variant) settles
\* to: the raster of its data URL, or a rejection when a file fails to load
createHeadshotVariant(profile, lg, variant, noise) ==
    IF profile.decodes /\ lg.decodes
    THEN [rejected |-> FALSE,
          url |-> Snapshot(HeadshotDraw(
                      BlankCanvas, 1, variant, profile,
                      ProcessedLogo(MatteDraw(BlankCanvas, 1, lg)), noise))]
    ELSE [rejected |-> TRUE, url |-> NoUrl]

NoOutcome == [rejected |-> FALSE, url |-> NoUrl]

InitHeadshot ==
    /\ profilePhoto = NoFile
    /\ logo = NoFile
    /\ isGenerating = FALSE
    /\ progress = 0
    /\ timers = 0
    /\ pc = "idle"
    /\ batchNo = 0
    /\ task = [t \in Tasks |-> NoTask]
    /\ outOfOrder = FALSE
    /\ canvas = [c \in CanvasIds |-> BlankCanvas]
    /\ ctxFailures = 0
    /\ toasts = NoToasts
    /\ delivered = <<>>
    /\ deliveredCalls = 0
    /\ captured = [profilePhoto |-> NoFile, logo |-> NoFile]
    /\ ticks = 0
    /\ objectUrls = 0
    /\ blit = [phase |-> "unused"]
    /\ matte = [phase |-> "unused"]
    /\ filter = [phase |-> "unused"]
    /\ session = [phase |-> "unused"]
    /\ \E p \in HeadshotFiles, l \in HeadshotFiles, v \in RecipeTags :
         headshot = [phase |-> "given", profilePhoto |-> p, logo |-> l,
                     variant |-> v, out1 |-> NoOutcome, out2 |-> NoOutcome]

\* the first call
HeadshotCall ==
    /\ headshot.phase = "given"
    /\ \E noise \in NoiseTextures :
         headshot' = [headshot EXCEPT
                        !.phase = "once",
                        !.out1 = createHeadshotVariant(
                                     headshot.profilePhoto, headshot.logo,
                                     headshot.variant, noise)]
    /\ UNCHANGED <<batchVars, blit, matte, filter, session>>

\* the second call, on the same arguments
HeadshotCallAgain ==
    /\ headshot.phase = "once"
    /\ \E noise \in NoiseTextures :
         headshot' = [headshot EXCEPT
                        !.phase = "twice",
                        !.out2 = createHeadshotVariant(
                                     headshot.profilePhoto, headshot.logo,
                                     headshot.variant, noise)]
    /\ UNCHANGED <<batchVars, blit, matte, filter, session>>

NextHeadshot == HeadshotCall \/ HeadshotCallAgain

SpecHeadshot == InitHeadshot /\ [][NextHeadshot]_vars

(***************************************************************************)
(* Index and ImageProcessor with every call of generateImages kept apart:  *)
(* the state of Index and, for each call, the files its closure holds and  *)
(* how far it has come.  The six tasks of a call are taken together as the *)
(* promise of Promise.all; a file is a number, 0 is null.                  *)
(***************************************************************************)
MaxSessionBatches == 2   \* calls of generateImages followed in one session

SessionFiles == {1, 2}

NoGallery == [batch |-> 0, profilePhoto |-> 0, logo |-> 0]

\* generateImages up to its await: the closure holds the profilePhoto and
\* the logo of the render that made it; setIsGenerating(true)
StartBatch(s) ==
    [s EXCEPT !.isGenerating = TRUE,
              !.batches = Append(@, [profilePhoto |-> s.profilePhoto,
                                     logo |-> s.logo,
                                     pc |-> "awaitAll"])]

\* the render of Index after one of its states was set, and the effect of
\* ImageProcessor after it.  handleImagesGenerated is a new function in
\* every render of Index, so generateImages is a new callback and the effect
\* runs: if (isGenerating && profilePhoto && logo) generateImages()
EffectRuns(s) ==
    IF s.isGenerating /\ s.profilePhoto # 0 /\ s.logo # 0
    THEN StartBatch(s)
    ELSE s

InitSession ==
    /\ profilePhoto = NoFile
    /\ logo = NoFile
    /\ isGenerating = FALSE
    /\ progress = 0
    /\ timers = 0
    /\ pc = "idle"
    /\ batchNo = 0
    /\ task = [t \in Tasks |-> NoTask]
    /\ outOfOrder = FALSE
    /\ canvas = [c \in CanvasIds |-> BlankCanvas]
    /\ ctxFailures = 0
    /\ toasts = NoToasts
    /\ delivered = <<>>
    /\ deliveredCalls = 0
    /\ captured = [profilePhoto |-> NoFile, logo |-> NoFile]
    /\ ticks = 0
    /\ objectUrls = 0
    /\ blit = [phase |-> "unused"]
    /\ matte = [phase |-> "unused"]
    /\ filter = [phase |-> "unused"]
    /\ headshot = [phase |-> "unused"]
    /\ session = [phase |-> "running",
                  profilePhoto |-> 0,
                  logo |-> 0,
                  isGenerating |-> FALSE,
                  batches |-> <<>>,
                  gallery |-> NoGallery]

\* a step of the session to state s, within the bound on the calls
SessionStep(s) ==
    /\ session.phase = "running"
    /\ Len(s.batches) <= MaxSessionBatches
    /\ session' = s
    /\ UNCHANGED <<batchVars, blit, matte, filter, headshot>>

\* Index.handleProfilePhotoUpload, called by the drop and the change handler
\* of UploadSection, which do not look at isGenerating: setProfilePhoto(file)
SessionPhotoUpload(file) ==
    /\ session.phase = "running"
    /\ SessionStep(EffectRuns([session EXCEPT !.profilePhoto = file]))

\* Index.handleLogoUpload: setLogo(file)
SessionLogoUpload(file) ==
    /\ session.phase = "running"
    /\ SessionStep(EffectRuns([session EXCEPT !.logo = file]))

\* the Generate button, disabled unless canGenerate: setIsGenerating(true)
SessionGenerate ==
    /\ session.phase = "running"
    /\ session.profilePhoto # 0 /\ session.logo # 0 /\ ~session.isGenerating
    /\ SessionStep(EffectRuns([session EXCEPT !.isGenerating = TRUE]))

\* Promise.all of call b is fulfilled: setProgress(100), clearInterval and
\* setTimeout(..., 500)
SessionAllFulfilled(b) ==
    /\ session.phase = "running"
    /\ b \in 1 .. Len(session.batches)
    /\ session.batches[b].pc = "awaitAll"
    /\ SessionStep([session EXCEPT !.batches[b].pc = "delay"])

\* Promise.all of call b is rejected: the catch block, setIsGenerating(false)
SessionAllRejected(b) ==
    /\ session.phase = "running"
    /\ b \in 1 .. Len(session.batches)
    /\ session.batches[b].pc = "awaitAll"
    /\ SessionStep(EffectRuns([session EXCEPT !.batches[b].pc = "failed",
                                              !.isGenerating = FALSE]))

\* the timeout callback of call b: onImagesGenerated(generatedImages), which
\* is setGeneratedImages in Index, and setIsGenerating(false), in one render
SessionTimeoutFires(b) ==
    /\ session.phase = "running"
    /\ b \in 1 .. Len(session.batches)
    /\ session.batches[b].pc = "delay"
    /\ SessionStep(EffectRuns(
           [session EXCEPT !.batches[b].pc = "delivered",
                           !.gallery = [batch |-> b,
                                        profilePhoto |-> session.batches[b].profilePhoto,
                                        logo |-> session.batches[b].logo],
                           !.isGenerating = FALSE]))

NextSession ==
    \/ \E file \in SessionFiles : SessionPhotoUpload(file)
    \/ \E file \in SessionFiles : SessionLogoUpload(file)
    \/ SessionGenerate
    \/ \E b \in 1 .. MaxSessionBatches : SessionAllFulfilled(b)
    \/ \E b \in 1 .. MaxSessionBatches : SessionAllRejected(b)
    \/ \E b \in 1 .. MaxSessionBatches : SessionTimeoutFires(b)

SpecSession == InitSession /\ [][NextSession]_vars

(***************************************************************************)
(* Properties of the batch.                                                *)
(***************************************************************************)
BatchOver == batchNo > 0 /\ pc = "idle" /\ \A t \in Tasks : Settled(task, t)

InputsDecode == captured.profilePhoto.decodes /\ captured.logo.decodes

Fulfilled(t) == task[t].pc = "fulfilled"

Range(seq) == {seq[i] : i \in 1 .. Len(seq)}

Notifications ==
    Cardinality(toasts.variant) + toasts.batch + toasts.missing

\* C1: when a single task of a batch fails, the batch still delivers the
\* record of every task that succeeded; there is no delivery only when no
\* task produced an image or an input was missing or undecodable.
C1_PartialBatchDelivered ==
    (BatchOver /\ InputsDecode /\ \E t \in Tasks : Fulfilled(t))
        => /\ deliveredCalls = 1
           /\ \A t \in Tasks : Fulfilled(t) => task[t].result \in Range(delivered)

C3_UndecodableLogo ==
    (batchNo > 0 /\ pc # "effect"
     /\ captured.profilePhoto.decodes /\ ~captured.logo.decodes)
        => /\ deliveredCalls = 0
           /\ pc # "delay"
           /\ \A t \in VariantTasks :
                  task[t].pc \in {"load", "null"} /\ task[t].result = Null
           /\ (\A t \in Tasks : Settled(task, t))
                  => (pc = "idle" /\ toasts.batch = 1 /\ ~isGenerating)

\* C3 witness: the batch with an undecodable logo has ended
C3_Witness ==
    /\ BatchOver
    /\ captured.profilePhoto.decodes /\ ~captured.logo.decodes
    /\ toasts.batch = 1
    /\ \A t \in VariantTasks : task[t].pc = "null"

\* C4: when a required input is missing or cannot be decoded, the caller
\* gets exactly one failure notification for the batch, not one per task.
C4_OneFailureNotification ==
    (batchNo > 0 /\ ~InputsDecode)
        => /\ Notifications <= 1
           /\ BatchOver => Notifications = 1

\* the position of a record in the array given to Promise.all
IssueRank(rec) ==
    IF rec.id[1] = "profile" THEN rec.id[2] ELSE NumVariants + rec.id[2]

\* C5: the delivered list is in completion order: the record of a task that
\* finished earlier precedes the record of a task that finished later.  So
\* when a task has finished before a task issued earlier, the delivered list
\* has their two records in the reverse of the order of issue.
C5_CompletionOrder ==
    (deliveredCalls > 0 /\ outOfOrder)
        => \E i, j \in 1 .. Len(delivered) :
               i < j /\ IssueRank(delivered[i]) > IssueRank(delivered[j])

\* C5 amended: the delivered list is in the order in which the tasks were
\* issued (the variants in profileVariants order, then banner-1, banner-2),
\* whatever the order of completion.
C5_IssueOrder ==
    deliveredCalls > 0
        => \A i, j \in 1 .. Len(delivered) :
               i < j => IssueRank(delivered[i]) < IssueRank(delivered[j])

\* C5 witness: a list was delivered after the tasks completed out of order
C5_Witness ==
    /\ deliveredCalls = 1
    /\ Len(delivered) = NumTasks
    /\ outOfOrder
    /\ delivered[1] = task[1].result

\* the task that created canvas c
Owner(c) == IF c <= NumTasks THEN c ELSE c - NumTasks

\* the matte-extracted logo a task gets when it runs alone
SoloLogo(t) == ProcessedLogo(MatteDraw(BlankCanvas, t, captured.logo))

\* the data URL a task returns when it runs alone on the batch's inputs
SoloOutput(t) ==
    IF t \in VariantTasks
    THEN Snapshot(HeadshotDraw(BlankCanvas, t, profileVariants[t],
                               captured.profilePhoto, SoloLogo(t), NoNoise))
    ELSE IF t = Banner1
    THEN Snapshot(CombineDraw(BlankCanvas, t, "banner",
                              captured.profilePhoto, SoloLogo(t)))
    ELSE Snapshot(Banner2Draw(Banner2Start(BlankCanvas, t), t,
                              captured.profilePhoto, captured.logo))

\* C6: in every interleaving, a canvas is written only by the task that
\* created it, the matte-extracted logo has the size of the decoded logo,
\* and the output of every task equals the output it produces when run alone.
C6_TasksIsolated ==
    /\ \A c \in CanvasIds : canvas[c].writers \subseteq {Owner(c)}
    /\ \A t \in Tasks :
           task[t].pc = "matte" =>
               /\ canvas[NumTasks + t].w = captured.logo.width
               /\ canvas[NumTasks + t].h = captured.logo.height
    /\ \A t \in Tasks : Fulfilled(t) => task[t].result.url = SoloOutput(t)

\* C6 witness: every task has finished, and not in the order of issue
C6_Witness ==
    /\ \A t \in Tasks : Fulfilled(t)
    /\ outOfOrder
    /\ pc = "delay"

\* the eight variant tags of the specification's data model
Variant ==
    {"professional", "artistic", "minimal", "bold",
     "gradient", "duotone", "vintage", "monochrome"}

\* C7: a batch issues one task for each of the eight variant tags plus two
\* banner tasks, and every tag has a recipe in createHeadshotVariant.
C7_EightVariantTasks ==
    batchNo > 0
        => /\ {profileVariants[t] : t \in VariantTasks} = Variant
           /\ NumVariants = Cardinality(Variant)
           /\ Variant \subseteq RecipeTags
           /\ \A t \in Tasks : task[t].pc # "none"

ExpectedSize(t) == IF t \in VariantTasks THEN <<500, 500>> ELSE <<1584, 396>>

\* C8: every variant task that succeeds outputs 500 by 500 and every banner
\* task that succeeds outputs 1584 by 396, whatever the sizes of the inputs;
\* and a canvas that has been drawn on is never resized.
C8_OutputSizes ==
    /\ [](\A t \in Tasks : Fulfilled(t) =>
             /\ <<task[t].result.url.w, task[t].result.url.h>> = ExpectedSize(t)
             /\ <<canvas[t].w, canvas[t].h>> = ExpectedSize(t))
    /\ [][\A c \in CanvasIds :
             (canvas[c].layers # <<>> /\ batchNo' = batchNo)
                 => (canvas'[c].w = canvas[c].w /\ canvas'[c].h = canvas[c].h)]_vars

\* C8 witness: a variant and both banners have been drawn from a 4000 by 100
\* profile photo
C8_Witness ==
    /\ captured.profilePhoto.width = 4000
    /\ captured.profilePhoto.height = 100
    /\ Fulfilled(1) /\ Fulfilled(Banner1) /\ Fulfilled(Banner2)

(***************************************************************************)
(* Properties of drawImageProp.                                            *)
(***************************************************************************)
InUnit(o) == Le(Num(0), o) /\ Le(o, Num(1))

C10_EmptySourceRejected ==
    (blit.phase = "returned" /\ (blit.iw = 0 \/ blit.ih = 0))
        => (blit.out.error = "InvalidSourceError" /\ ~blit.out.drew)

(***************************************************************************)
(* Properties of removeBackgroundAdvanced.                                 *)
(***************************************************************************)
MatteRan == matte.phase \in {"once", "twice"}

\* the edge flags and the background color of the first call
Edges1 == matte.edges1

Background1 == matte.backgroundColor1

\* the squared distance of pixel i to the background color of the first call
D2(i) == Distance2(Background1, matte.data1[i])

LogoIndices == 1 .. Len(matte.data1)

\* clamp(0, 255, round(d / 30 * 255))
ClampRound(d2) ==
    IF RoundScaled(d2) < 0 THEN 0
    ELSE IF RoundScaled(d2) > 255 THEN 255 ELSE RoundScaled(d2)

C12_PartialTransparency ==
    MatteRan =>
        \A i \in LogoIndices :
            (~Edges1[i] /\ D2(i) >= 900 /\ D2(i) < 2025) =>
                /\ matte.out1.px[i].a > 0
                /\ matte.out1.px[i].a < 255
                /\ \A j \in LogoIndices :
                      (~Edges1[j] /\ D2(j) > D2(i) /\ D2(j) < 2025) =>
                          matte.out1.px[j].a > matte.out1.px[i].a

\* C13: every pixel marked edge keeps its input alpha, whatever its distance
\* to the background color.
C13_EdgePixelsKeepAlpha ==
    MatteRan =>
        \A i \in LogoIndices :
            Edges1[i] => matte.out1.px[i].a = matte.data1[i].a

\* C13 witness: an opaque edge pixel of exactly the background color
C13_Witness ==
    /\ matte.phase = "once"
    /\ \E i \in LogoIndices :
         /\ Edges1[i]
         /\ D2(i) = 0
         /\ matte.data1[i].a = 255
         /\ matte.out1.px[i].a = 255

\* C14: when the extractor runs on its own output, every pixel marked edge
\* in the first pass and opaque after it is still opaque after the second.
C14_EdgesStayOpaque ==
    matte.phase = "twice" =>
        \A i \in LogoIndices :
            (Edges1[i] /\ matte.out1.px[i].a = 255) =>
                matte.out2.px[i].a = 255

\* C15: removeBackgroundAdvanced never changes the pixels or the size of the
\* image it is given, and returns an image of the same width and height.
C15_InputImageUntouched ==
    /\ [][matte'.img = matte.img]_vars
    /\ [](MatteRan => /\ matte.out1.width = matte.img.width
                      /\ matte.out1.height = matte.img.height
                      /\ Len(matte.out1.px) = Len(matte.img.px))

\* C15 witness: the image returned differs from the image given
C15_Witness ==
    /\ matte.phase = "once"
    /\ matte.out1.px # matte.img.px
    /\ matte.img.width = 3 /\ matte.img.height = 3

(***************************************************************************)
(* Properties of the colour filters.                                       *)
(***************************************************************************)
Byte(v) == v \in 0 .. 255

BytePixel(p) == Byte(p.r) /\ Byte(p.g) /\ Byte(p.b)

C17_MonochromeThreshold ==
    filter.phase = "monochrome" =>
        /\ filter.out.r = filter.out.g
        /\ filter.out.g = filter.out.b
        /\ filter.out.r \in {0, 255}
        /\ (filter.out.r = 255) <=>
             (299 * filter.px.r + 587 * filter.px.g + 114 * filter.px.b
                > 140000)

\* a pixel of luminance exactly 140 comes out black
C17_Witness ==
    /\ filter.phase = "monochrome"
    /\ filter.px = Rgb(140, 140, 140)
    /\ filter.out = Rgb(0, 0, 0)

(***************************************************************************)
(* Properties of createHeadshotVariant called twice.                       *)
(***************************************************************************)
\* two rasters that are equal except for the data of a putImageData
SameButImageData(a, b) ==
    /\ a.w = b.w
    /\ a.h = b.h
    /\ Len(a.layers) = Len(b.layers)
    /\ \A i \in 1 .. Len(a.layers) :
          \/ a.layers[i] = b.layers[i]
          \/ /\ a.layers[i].op = "putImageData"
             /\ [a.layers[i] EXCEPT !.src = NoNoise]
                  = [b.layers[i] EXCEPT !.src = NoNoise]

\* C18: two calls of the professional variant on the same profile photo
\* and logo return the same raster, and so do two calls of every variant
\* other than vintage; two vintage rasters differ in nothing but the noise
\* texture.
C18_SameInputsSameRaster ==
    headshot.phase = "twice" =>
        /\ headshot.variant # "vintage" => headshot.out1 = headshot.out2
        /\ headshot.out1.rejected = headshot.out2.rejected
        /\ SameButImageData(headshot.out1.url, headshot.out2.url)

\* the professional variant has drawn the photo, the logo and the vignette
\* twice, while the random numbers of the two calls differed
C18_Witness ==
    /\ headshot.phase = "twice"
    /\ headshot.variant = "professional"
    /\ ~headshot.out1.rejected
    /\ Len(headshot.out1.url.layers) = 3
    /\ headshot.out1 = headshot.out2

(***************************************************************************)
(* Properties of the object URLs.                                          *)
(***************************************************************************)
\* C19: every object URL created to decode a file is released once the
\* image has loaded or has failed to load; after a batch has ended, none
\* of the object URLs it created is still held.
C19_ObjectUrlsReleased == BatchOver => objectUrls = 0

(***************************************************************************)
(* Properties of the upload paths.                                         *)
(***************************************************************************)
\* C20: every file that a batch composes as profile photo or as logo has
\* passed the image-type check of the upload section, whether it was
\* dropped or picked in the file dialog; a file that fails the check is
\* never passed to onProfilePhotoUpload or onLogoUpload.
C20_OnlyImageFilesReachCore ==
    /\ profilePhoto # NoFile => MatchesImage(profilePhoto.type)
    /\ logo # NoFile => MatchesImage(logo.type)
    /\ batchNo > 0 =>
          /\ MatchesImage(captured.profilePhoto.type)
          /\ MatchesImage(captured.logo.type)

(***************************************************************************)
(* Properties of the end of a batch.                                       *)
(***************************************************************************)
\* C24: when a batch has ended, on the success path or on the failure
\* path, the progress timer it started has been cancelled, so that no
\* timer of a finished batch keeps updating progress.
C24_TimerCancelled == BatchOver => timers = 0

\* the tasks of the batch whose promise was fulfilled with a record
Survivors == {t \in Tasks : task[t].pc = "fulfilled"}

\* the i-th survivor in the order of the task list
NthSurvivor(i) ==
    CHOOSE t \in Survivors : Cardinality({u \in Survivors : u < t}) = i - 1

\* the id of the record of task t: fixed by the position of the task
IdOfTask(t) ==
    IF t \in VariantTasks THEN <<"profile", t>>
    ELSE <<"banner", t - NumVariants>>

\* C25: the order of the delivered records does not depend on the order in
\* which the tasks complete: the delivered list holds the records of the
\* surviving variants in variant order, then banner-1, then banner-2, and
\* a failed variant leaves a gap in the ids; the others keep their numbers.
C25_DeliveredInTaskOrder ==
    deliveredCalls > 0 =>
        /\ Len(delivered) = Cardinality(Survivors)
        /\ \A i \in 1 .. Len(delivered) :
              /\ delivered[i] = task[NthSurvivor(i)].result
              /\ delivered[i].id = IdOfTask(NthSurvivor(i))

\* a list delivered after the first variant failed and the other tasks
\* completed out of order: it starts with profile-2
C25_Witness ==
    /\ deliveredCalls = 1
    /\ outOfOrder
    /\ task[1].pc = "null"
    /\ Len(delivered) = NumTasks - 1
    /\ delivered[1].id = <<"profile", 2>>
    /\ delivered[NumTasks - 1].id = <<"banner", 2>>

\* a step that calls onImagesGenerated
Delivers == deliveredCalls' = deliveredCalls + 1

\* C23: for each batch onImagesGenerated is called at most once, only
\* after every promise of the batch has been fulfilled and progress has
\* been set to 100, and in the callback that sets isGenerating back to
\* false after the call; it is never called for a batch that ended in the
\* catch block of generateImages.
C23_DeliveredOncePerBatch ==
    /\ [][Delivers =>
            /\ deliveredCalls = 0
            /\ pc = "delay"
            /\ \A t \in Tasks : task[t].pc \in {"fulfilled", "null"}
            /\ toasts.batch = 0
            /\ isGenerating /\ ~isGenerating'
            /\ delivered' = GeneratedImages(task)]_vars
    /\ [][(pc # "delay" /\ pc' = "delay") => progress' = 100]_vars
    /\ [](toasts.batch > 0 => deliveredCalls = 0)
    /\ [](deliveredCalls <= 1)

\* a batch has delivered its list
C23_Witness ==
    /\ deliveredCalls = 1
    /\ ~isGenerating
    /\ pc = "idle"
    /\ Len(delivered) = NumTasks
    /\ toasts.success = 1

(***************************************************************************)
(* Properties of findDominantBackgroundColor and detectEdges.              *)
(***************************************************************************)
\* pixel i of a logo of width W and height H lies within 10% of W of the
\* left or the right edge, or within 10% of H of the top or the bottom edge
InBorderBand(i, W, H) ==
    LET x == (i - 1) % W
        y == (i - 1) \div W
    IN  \/ 10 * x < W
        \/ 10 * x > 9 * W
        \/ 10 * y < H
        \/ 10 * y > 9 * H

\* C26: for a logo of width W and height H, a pixel contributes to the
\* estimate of the background color if and only if its column is within
\* 10% of W of the left or the right edge or its row is within 10% of H of
\* the top or the bottom edge, with the width and the height the logo has;
\* this holds for logos that are not square.
C26_BorderBandSampled ==
    MatteRan =>
        \A i \in LogoIndices :
            (i \in SampledPixels(matte.data1))
                <=> InBorderBand(i, matte.img.width, matte.img.height)

\* the bucket of a pixel: (floor(R / 10), floor(G / 10), floor(B / 10))
Bucket(p) == <<p.r \div 10, p.g \div 10, p.b \div 10>>

\* the sampled pixels of the first call
Sampled1 == SampledPixels(matte.data1)

\* the sampled pixels in the bucket of pixel i
BucketMates(i) == {j \in Sampled1 : Bucket(matte.data1[j]) = Bucket(matte.data1[i])}

\* pixel i is the first sampled pixel of its bucket
OpensBucket(i) == i \in Sampled1 /\ \A j \in BucketMates(i) : i <= j

\* C27: findDominantBackgroundColor returns a color of a bucket
\* (floor(R/10), floor(G/10), floor(B/10)) whose count of sampled pixels is
\* the greatest of all buckets; the color is that of the first sampled
\* pixel of the bucket, of two buckets of the same count the one met first
\* wins, and the color is white when no pixel is sampled.
C27_DominantBucket ==
    /\ findDominantBackgroundColor(<<>>) = [r |-> 255, g |-> 255, b |-> 255]
    /\ MatteRan =>
         \E i \in Sampled1 :
            /\ OpensBucket(i)
            /\ Background1 = [r |-> matte.data1[i].r, g |-> matte.data1[i].g,
                              b |-> matte.data1[i].b]
            /\ \A j \in Sampled1 :
                  /\ Cardinality(BucketMates(j)) <= Cardinality(BucketMates(i))
                  /\ (OpensBucket(j) /\ Cardinality(BucketMates(j))
                                          = Cardinality(BucketMates(i)))
                       => i <= j

\* three buckets of one sampled pixel each: the color returned is that of
\* the first pixel, which is not white
C27_Witness ==
    /\ matte.phase = "once"
    /\ Cardinality(Sampled1) = 3
    /\ \A i, j \in Sampled1 :
          i # j => Bucket(matte.data1[i]) # Bucket(matte.data1[j])
    /\ Background1 = [r |-> 0, g |-> 0, b |-> 0]

\* the Sobel kernels, indexed by the offsets <<dx, dy>> of the neighbour
KernelX ==
    [d \in (-1 .. 1) \X (-1 .. 1) |-> d[1] * (IF d[2] = 0 THEN 2 ELSE 1)]

KernelY ==
    [d \in (-1 .. 1) \X (-1 .. 1) |-> d[2] * (IF d[1] = 0 THEN 2 ELSE 1)]

RECURSIVE SumOver(_, _)
SumOver(f, S) ==
    IF S = {} THEN 0
    ELSE LET d == CHOOSE e \in S : TRUE
         IN  f[d] + SumOver(f, S \ {d})

\* R + G + B of the pixel of the first call at column x, row y
Sum3(x, y) ==
    LET p == matte.data1[y * matte.img.width + x + 1]
    IN  p.r + p.g + p.b

\* the square of three times the gradient magnitude at (x, y)
Magnitude9(x, y) ==
    LET N  == (-1 .. 1) \X (-1 .. 1)
        gx == SumOver([d \in N |-> KernelX[d] * Sum3(x + d[1], y + d[2])], N)
        gy == SumOver([d \in N |-> KernelY[d] * Sum3(x + d[1], y + d[2])], N)
    IN  gx * gx + gy * gy

\* (x, y) has a 3 by 3 neighbourhood inside the image
Interior(x, y) ==
    /\ 1 <= x /\ x <= matte.img.width - 2
    /\ 1 <= y /\ y <= matte.img.height - 2

SameColor(p, q) == p.r = q.r /\ p.g = q.g /\ p.b = q.b

\* C30: the matte extraction never changes R, G or B of any pixel, and
\* applied to its own output it yields the same alpha for every pixel as
\* the first application did.
C30_MatteIdempotent ==
    /\ MatteRan =>
           \A i \in LogoIndices :
               SameColor(matte.out1.px[i], matte.data1[i])
    /\ matte.phase = "twice" =>
           \A i \in LogoIndices :
               /\ SameColor(matte.out2.px[i], matte.out1.px[i])
               /\ matte.out2.px[i].a = matte.out1.px[i].a

\* the same statement for the second calls that read exactly the pixels the
\* first call put on its canvas
C30_SameDataSameAlpha ==
    (matte.phase = "twice" /\ matte.data2 = matte.out1.px) =>
        matte.out2.px = matte.out1.px

(***************************************************************************)
(* Termination of a batch.                                                 *)
(***************************************************************************)
\* C21: every batch that starts eventually finishes: every task promise
\* settles, and isGenerating eventually returns to false, on the success
\* path and on every failure path, including a failure to load the image
\* made from the matte canvas.
C21_BatchFinishes ==
    /\ \A t \in Tasks : (~Settled(task, t)) ~> Settled(task, t)
    /\ isGenerating ~> ~isGenerating

\* the same batches without the failing reload: each one finishes
C21_FinishesWhenReloadsSucceed ==
    (\A t \in Tasks : [](task[t].pc # "reloadFailed"))
        => C21_BatchFinishes

(***************************************************************************)
(* Overlapping calls of generateImages.                                    *)
(***************************************************************************)
\* the calls of generateImages that have not ended
InFlight ==
    {b \in 1 .. Len(session.batches) :
        session.batches[b].pc \in {"awaitAll", "delay"}}

C22_OneInFlight == Cardinality(InFlight) <= 1

C22_DeliveredFromSelection ==
    [][session'.gallery # session.gallery =>
          /\ session'.gallery.profilePhoto = session.profilePhoto
          /\ session'.gallery.logo = session.logo]_vars

C22_NewerNotOverwritten ==
    [][session'.gallery.batch >= session.gallery.batch]_vars

\* C22: at most one batch is in flight at any time, the images delivered
\* were generated from the profile photo and the logo selected at the time
\* of the delivery, and an older batch does not overwrite the images of a
\* newer one, also when an input changes while isGenerating is true.
C22_SingleBatch ==
    /\ []C22_OneInFlight
    /\ C22_DeliveredFromSelection
    /\ C22_NewerNotOverwritten

====
